---------------------------- MODULE Spec2Model ----------------------------
(***************************************************************************)
(* A model of the two GFAS grid transformation scripts:                    *)
(*   src/bin/preprocess_gfas_data.py  (one raw grid  -> one output grid)   *)
(*   src/combine_gfas_data.py         (two raw halves -> one output grid)  *)
(*                                                                         *)
(* Numbers.  A grid value is a real number; the model writes the real r as *)
(* the integer 10*r, and the fill sentinel np.float32(-1.0e-31) as -1.     *)
(* The coding keeps the order of the reals (-0.4 < -1.0e-31 < 0.0), which  *)
(* is all that np.unique, ==, < and > look at.  Raw values are taken among *)
(* float32 numbers, so the float32 store of the output keeps them.         *)
(*                                                                         *)
(* Arrays.  A 3-D array is a sequence (time) of sequences (lat) of         *)
(* sequences (lon); a coordinate array is a sequence.                      *)
(***************************************************************************)
EXTENDS Integers, Sequences, FiniteSets, TLC

\* ------------------------------------------------------------ constants
\* miss_value = np.float32(-1.0e-31), in the coding above
MissValue == -1
\* the literal 0.0
Zero == 0
\* the literal 1.0 of the height comparison
One == 10
\* hours between the raw epoch (1900) and the output epoch (1970)
TimeOffset == 613608
\* main() of the single-grid script reads time[5] for the title
TitleIndex == 5
\* createDimension("lat", 1800) and ("lon", 3600), scaled down
NLat == 2
NLon == 1
\* the largest number of time steps of a raw grid
MaxSteps == 6

HeightFields == <<"mami", "injh", "apb", "apt">>
CombineHeightFields == <<"mami">>
Codes == {"co2fire", "cofire", "mami", "injh", "apb", "apt"}
Scripts == {"preprocess", "combine"}

Range(s) == {s[k] : k \in DOMAIN s}

\* ------------------------------------------------------------ numpy
\* seq[::-1]
Reverse(s) == [k \in 1..Len(s) |-> s[Len(s) + 1 - k]]

\* a slip: data[::-1, ::-1, :], the time axis reversed as well
FlipLatAndTime(data) == [t \in 1..Len(data) |-> Reverse(data[Len(data) + 1 - t])]

\* data[:, ::-1, :]
FlipLat(data) == [t \in 1..Len(data) |-> Reverse(data[t])]

\* the index triples of an array (every array here is rectangular)
Cells(data) ==
    IF data = << >> THEN {}
    ELSE (DOMAIN data) \X (DOMAIN data[1]) \X (DOMAIN data[1][1])

\* the values of an array, as a set
ValuesOf(data) == {data[c[1]][c[2]][c[3]] : c \in Cells(data)}

\* how many cells of the whole array hold v
CountOf(data, v) == Cardinality({c \in Cells(data) : data[c[1]][c[2]][c[3]] = v})

\* np.unique(data): the distinct values in ascending order
RECURSIVE SortedSeq(_)
SortedSeq(S) ==
    IF S = {} THEN << >>
    ELSE LET m == CHOOSE a \in S : \A b \in S : a <= b
         IN <<m>> \o SortedSeq(S \ {m})

\* np.argmax(counts): the first index holding the largest count
ArgMax(counts) ==
    CHOOSE k \in DOMAIN counts :
        /\ \A j \in DOMAIN counts : counts[j] <= counts[k]
        /\ \A j \in DOMAIN counts : j < k => counts[j] < counts[k]

\* a slip: the last index holding the largest count, as counts[::-1] gives
simple_mode_last_of_ties(data) ==
    LET unique == SortedSeq(ValuesOf(data))
        counts == [k \in DOMAIN unique |-> CountOf(data, unique[k])]
    IN unique[CHOOSE k \in DOMAIN counts :
                 /\ \A j \in DOMAIN counts : counts[j] <= counts[k]
                 /\ \A j \in DOMAIN counts : j > k => counts[j] < counts[k]]

\* a slip: np.argmax over the values instead of over their counts
simple_mode_of_values(data) ==
    LET unique == SortedSeq(ValuesOf(data))
    IN unique[ArgMax(unique)]

simple_mode(data) ==
    LET unique == SortedSeq(ValuesOf(data))
        counts == [k \in DOMAIN unique |-> CountOf(data, unique[k])]
    IN unique[ArgMax(counts)]

\* data[data == old] = new
ReplaceValue(data, old, new) ==
    [t \in 1..Len(data) |->
        [y \in 1..Len(data[t]) |->
            [x \in 1..Len(data[t][y]) |->
                IF data[t][y][x] = old THEN new ELSE data[t][y][x]]]]

\* ------------------------------------------------------------ Variable Transformer
\* the codes whose dominant value becomes the fill sentinel
IsHeightCode(script, code) ==
    IF script = "preprocess" THEN code \in Range(HeightFields)
    ELSE code \in Range(CombineHeightFields)

\* input_data = raw[:, ::-1, :]; input_data[input_data == mode] = miss_value | 0.0
TransformData(script, code, raw) ==
    LET input_data == FlipLat(raw)
    IN ReplaceValue(input_data, simple_mode(input_data),
                    IF IsHeightCode(script, code) THEN MissValue ELSE Zero)

\* ------------------------------------------------------------ Emission Height Corrector
\* rule 1: indices = cofire_values == 0.0
Rule1(cofire) == cofire = Zero

\* rule 2 of the single-grid script
Rule2Preprocess(height, cofire) ==
    /\ height # MissValue
    /\ cofire # Zero
    /\ height < One
    /\ height > -One

\* rule 2 of the combining script
Rule2Combine(height, cofire) ==
    /\ height # MissValue
    /\ cofire > -One
    /\ height < One

Rule2(script, height, cofire) ==
    IF script = "preprocess" THEN Rule2Preprocess(height, cofire)
    ELSE Rule2Combine(height, cofire)

\* a slip: the mask of rule 1 taken from heights instead of cofire_values
CorrectCellMaskFromHeights(script, height, cofire) ==
    LET h1 == IF Rule1(height) THEN MissValue ELSE height
    IN IF Rule2(script, h1, cofire) THEN Zero ELSE h1

\* one cell of heights after both assignments
CorrectCell(script, height, cofire) ==
    LET h1 == IF Rule1(cofire) THEN MissValue ELSE height
    IN IF Rule2(script, h1, cofire) THEN Zero ELSE h1

\* the body of the loop for one height field, on whole arrays
CorrectHeights(script, heights, cofire_values) ==
    [t \in 1..Len(heights) |->
        [y \in 1..Len(heights[t]) |->
            [x \in 1..Len(heights[t][y]) |->
                CorrectCell(script, heights[t][y][x], cofire_values[t][y][x])]]]

CorrectedFields(script) ==
    IF script = "preprocess" THEN HeightFields ELSE CombineHeightFields

\* process_emission_heights on the output dataset: each field in turn; a field
\* (or cofire) that is not a variable of the dataset raises KeyError and leaves
\* the fields before it corrected
RECURSIVE CorrectFrom(_, _, _)
CorrectFrom(script, ds, k) ==
    LET fields == CorrectedFields(script)
    IN IF k > Len(fields) THEN [ds |-> ds, raised |-> FALSE]
       ELSE IF fields[k] \notin ds.created \/ "cofire" \notin ds.created
            THEN [ds |-> ds, raised |-> TRUE]
            ELSE CorrectFrom(script,
                     [ds EXCEPT !.vars[fields[k]] =
                         CorrectHeights(script, ds.vars[fields[k]], ds.vars["cofire"])],
                     k + 1)

process_emission_heights(script, ds) == CorrectFrom(script, ds, 1)

\* ------------------------------------------------------------ raw grids
(***************************************************************************)
(* A raw grid file is described by a record.  Every variable of the file   *)
(* holds the padding value pad (the packed "no data" the scripts infer by  *)
(* the mode) in all cells but the fire cell, which holds the variable's    *)
(* fire value: cfire chooses the flux values, hrot the four heights.       *)
(***************************************************************************)
FireCell == <<1, 1, 1>>
Pads == {0, 1}
CofireValues == <<0, 25, -25>>
HeightValues == <<MissValue, 0, 4, -4, 10, -10>>
StepCounts == {1, MaxSteps}

StdLats == [y \in 1..NLat |-> 10 * y]
StdLons == [x \in 1..NLon |-> 100 * x]

Cycle(seq, k) == seq[((k - 1) % Len(seq)) + 1]

FieldIndex(code) == CHOOSE k \in DOMAIN HeightFields : HeightFields[k] = code

FireValue(f, code) ==
    IF code = "cofire" THEN Cycle(CofireValues, f.cfire)
    ELSE IF code = "co2fire" THEN Cycle(CofireValues, f.cfire + 1)
    ELSE Cycle(HeightValues, f.hrot + FieldIndex(code) - 1)

DefaultFile ==
    [steps |-> MaxSteps, start |-> 0, pad |-> 0, cfire |-> 2, hrot |-> 3,
     absent |-> {}, lats |-> StdLats, lons |-> StdLons]

\* files that differ in their data
DataFiles ==
    {[DefaultFile EXCEPT !.steps = n, !.pad = p, !.cfire = c, !.hrot = h] :
        n \in StepCounts, p \in Pads, c \in DOMAIN CofireValues,
        h \in DOMAIN HeightValues}

\* files that lack one variable of the specification
AbsentFiles == {[DefaultFile EXCEPT !.absent = {c}] : c \in Codes}

\* files on another grid (shifted, not ascending, too long), or starting at
\* another hour
GridFiles ==
    {[DefaultFile EXCEPT !.lats = [y \in 1..NLat |-> 10 * y + 5]],
     [DefaultFile EXCEPT !.lats = [y \in 1..NLat |-> IF y = 1 THEN 10 * NLat + 5 ELSE 10 * y]],
     [DefaultFile EXCEPT !.lats = [y \in 1..NLat + 1 |-> 10 * y]],
     [DefaultFile EXCEPT !.lons = [x \in 1..NLon + 1 |-> 100 * x]],
     [DefaultFile EXCEPT !.lons = [x \in 1..NLon |-> 100 * x + 50]],
     [DefaultFile EXCEPT !.start = 24]}

RawFiles == DataFiles \cup AbsentFiles \cup GridFiles

NoFile == [DefaultFile EXCEPT !.steps = 0]

\* input_dataset.variables["time"][:]
RawTime(f) == [t \in 1..f.steps |-> TimeOffset + f.start + 24 * (t - 1)]

\* input_dataset.variables[code][t, y, x]
RawCell(f, code, t, y, x) ==
    IF <<t, y, x>> = FireCell THEN FireValue(f, code) ELSE f.pad

\* input_dataset.variables[code][:, :, :]
RawVar(f, code) ==
    [t \in 1..f.steps |->
        [y \in 1..Len(f.lats) |->
            [x \in 1..Len(f.lons) |-> RawCell(f, code, t, y, x)]]]

\* code in input_dataset.variables
HasVar(f, code) == code \notin f.absent

\* the variable specification: metadata["code"] of each entry, in order
VariableSpec == <<"co2fire", "cofire", "mami", "injh", "apb", "apt">>

\* ------------------------------------------------------------ the command line
\* a Python str, as its characters
Str(chars) == [kind |-> "str", val |-> chars]

\* a Python list
List(items) == [kind |-> "list", val |-> items]

\* value[0]: the first item of a list, the first character of a str
Subscript0(value) ==
    IF value.kind = "list" THEN value.val[1] ELSE Str(<<value.val[1]>>)

\* default="variable_spec.json"
DefaultSpecPath ==
    Str(<<"v", "a", "r", "i", "a", "b", "l", "e", "_", "s", "p", "e", "c",
          ".", "j", "s", "o", "n">>)

\* the path an operator passes after --variable-spec
SuppliedSpecPath == Str(<<"m", "y", ".", "j", "s", "o", "n">>)

\* no open() yet
NoPath == Str(<< >>)

\* where --variable-spec stands on the command line: before the positional
\* arguments, after them, or nowhere
CommandLines == {[option |-> o] : o \in {"first", "last", "omitted"}}

UsualCommandLine == [option |-> "last"]

\* parser.parse_args(): nargs=1 makes a supplied path a one-item list; the
\* default is converted by `type` and stays a str
parse_args(cmd) ==
    [variable_spec |-> IF cmd.option = "omitted" THEN DefaultSpecPath
                       ELSE List(<<SuppliedSpecPath>>)]

\* ------------------------------------------------------------ state
VARIABLES
    script,        \* which script runs
    argv,          \* the command line
    spec_path,     \* the path the specification was opened with
    disk,          \* the output path on disk: "untouched", "empty" or "netcdf"
    data,          \* the array a lone call of simple_mode is given
    mode,          \* << >>, or the value that call returned, as <<value>>
    variable_spec, \* the loaded specification (<< >> before it is loaded)
    in1, in2,      \* the raw grid files (in2 = NoFile for the single-grid script)
    pc,            \* the statement main() is at
    handles,       \* input_1, input_2, output: "unopened", "open" or "closed"
    out,           \* the output dataset
    i,             \* the loop index over variable_spec
    stderr,        \* what was written to sys.stderr
    exitcode,      \* -1 while running, then the exit status
    exception      \* the uncaught exception that ended the run, or "none"

vars == <<script, argv, spec_path, disk, data, mode, variable_spec, in1, in2, pc, handles, out,
          i, stderr, exitcode, exception>>

EmptyDataset ==
    [dims |-> [lon |-> 0, lat |-> 0, time |-> 0],
     time |-> << >>, lat |-> << >>, lon |-> << >>,
     created |-> {},
     vars |-> [c \in Codes |-> << >>]]

Init ==
    /\ script \in Scripts
    /\ in1 \in RawFiles
    /\ in2 \in IF script = "combine" THEN RawFiles ELSE {NoFile}
    \* the forms of the command line are tried on the default grids
    /\ argv \in IF in1 = DefaultFile /\ in2 \in {DefaultFile, NoFile}
                THEN CommandLines ELSE {UsualCommandLine}
    /\ spec_path = NoPath
    /\ disk = "untouched"
    /\ data = << >>
    /\ mode = << >>
    /\ variable_spec = << >>
    /\ pc = "parse_args"
    /\ handles = [h \in {"input_1", "input_2", "output"} |-> "unopened"]
    /\ out = EmptyDataset
    /\ i = 1
    /\ stderr = << >>
    /\ exitcode = -1
    /\ exception = "none"

Msg(level, about) == [level |-> level, about |-> about]

\* sys.exit(code) / an uncaught exception: the run is over
Exit(code, exc) ==
    /\ pc' = "done"
    /\ exitcode' = code
    /\ exception' = exc

Goto(label) ==
    /\ pc' = label
    /\ UNCHANGED <<exitcode, exception>>

\* ------------------------------------------------------------ main(): start-up
\* parse_command_line() / get_script_args(). The combining script takes every
\* argument as a str. The single-grid script converts the arguments in the
\* order they stand (a default last): file_path wants an existing file,
\* potential_file_path opens the output path with "w+", which creates or
\* truncates it; argparse exits with status 2 on the first that fails
ParseCommandLine ==
    /\ pc = "parse_args"
    /\ IF script = "combine"
       THEN /\ Goto("load_spec")
            /\ UNCHANGED <<stderr, disk>>
       ELSE \E spec_is_file, raw_is_file, out_writable \in BOOLEAN :
               IF \/ (argv.option = "first" /\ ~spec_is_file)
                  \/ ~raw_is_file
                  \/ ~out_writable
               THEN /\ stderr' = Append(stderr, Msg("ERROR", "usage"))
                    /\ Exit(2, "none")
                    /\ UNCHANGED disk
               ELSE /\ disk' = "empty"
                    /\ IF spec_is_file
                       THEN /\ Goto("load_spec")
                            /\ UNCHANGED stderr
                       ELSE /\ stderr' = Append(stderr, Msg("ERROR", "usage"))
                            /\ Exit(2, "none")
    /\ UNCHANGED <<script, argv, data, mode, spec_path, variable_spec, in1, in2, handles, out, i>>

\* with open(script_args.variable_spec[0]) ...: load(...)
LoadVariableSpec ==
    /\ pc = "load_spec"
    /\ spec_path' = Subscript0(parse_args(argv).variable_spec)
    /\ \E readable \in BOOLEAN :
          IF readable
          THEN /\ variable_spec' = VariableSpec
               /\ Goto("open_input_1")
               /\ UNCHANGED stderr
          ELSE /\ stderr' = stderr \o <<Msg("ERROR", "variable_spec"),
                                        Msg("ERROR", "strerror")>>
               /\ Exit(1, "none")
               /\ UNCHANGED variable_spec
    /\ UNCHANGED <<script, argv, data, mode, disk, in1, in2, handles, out, i>>

\* one try: nc4.Dataset(...) / except OSError: ... exit(1)
OpenDataset(label, handle, next) ==
    /\ pc = label
    /\ \E opened \in BOOLEAN :
          IF opened
          THEN /\ handles' = [handles EXCEPT ![handle] = "open"]
               /\ Goto(next)
               /\ UNCHANGED stderr
          ELSE /\ stderr' = stderr \o <<Msg("ERROR", handle), Msg("ERROR", "strerror")>>
               /\ Exit(1, "none")
               /\ UNCHANGED handles
    /\ UNCHANGED <<script, argv, data, mode, spec_path, variable_spec, in1, in2, out, i>>

OpenInput1 ==
    /\ OpenDataset("open_input_1", "input_1",
                   IF script = "combine" THEN "open_input_2" ELSE "open_output")
    /\ UNCHANGED disk

OpenInput2 ==
    /\ OpenDataset("open_input_2", "input_2", "open_output")
    /\ UNCHANGED disk

\* mode "w": a dataset that opens has replaced what the path held
OpenOutput ==
    /\ OpenDataset("open_output", "output",
                   IF script = "combine" THEN "create_dimensions" ELSE "title")
    /\ disk' = IF handles'["output"] = "open" THEN "netcdf" ELSE disk

\* single-grid script: the title's date is read from time[5]
SetTitle ==
    /\ pc = "title"
    /\ IF in1.steps > TitleIndex
       THEN Goto("create_dimensions")
       ELSE Exit(1, "IndexError")
    /\ UNCHANGED <<script, argv, data, mode, spec_path, disk, variable_spec, in1, in2, handles, out, i, stderr>>

\* createDimension("lon", 3600), ("lat", 1800), ("time", size | None)
CreateDimensions ==
    /\ pc = "create_dimensions"
    /\ out' = [out EXCEPT !.dims =
                  [lon |-> NLon, lat |-> NLat,
                   time |-> IF script = "combine" THEN 0 ELSE in1.steps]]
    /\ Goto("process_dimensions")
    /\ UNCHANGED <<script, argv, data, mode, spec_path, disk, variable_spec, in1, in2, handles, i, stderr>>

\* ------------------------------------------------------------ Dimension Transformer
\* np.ndarray.tolist(time[:] - 613608)
OffsetTime(raw_time) == [t \in 1..Len(raw_time) |-> raw_time[t] - TimeOffset]

\* the time coordinate both scripts write
process_time_dimension(scr, f1, f2) ==
    IF scr = "combine"
    THEN OffsetTime(RawTime(f1)) \o OffsetTime(RawTime(f2))
    ELSE OffsetTime(RawTime(f1))

\* a slip: latitude[:], the raw orientation kept
lat_not_reversed(f) == f.lats

\* latitude[::-1]
process_lat_dimension(f) == Reverse(f.lats)

\* longitude[:]
process_lon_dimension(f) == f.lons

\* process_dimensions: time, then lat, then lon; an array whose length is not
\* the dimension's cannot be stored, and the call raises with the coordinates
\* before it written
ProcessDimensions ==
    /\ pc = "process_dimensions"
    /\ LET time == process_time_dimension(script, in1, in2)
           lat == process_lat_dimension(in1)
           lon == process_lon_dimension(in1)
           withTime == [out EXCEPT !.time = time, !.dims.time = Len(time)]
       IN IF Len(lat) # out.dims.lat
          THEN /\ out' = withTime
               /\ Exit(1, "ShapeMismatch")
          ELSE IF Len(lon) # out.dims.lon
          THEN /\ out' = [withTime EXCEPT !.lat = lat]
               /\ Exit(1, "ShapeMismatch")
          ELSE /\ out' = [withTime EXCEPT !.lat = lat, !.lon = lon]
               /\ Goto("process_variables")
    /\ UNCHANGED <<script, argv, data, mode, spec_path, disk, variable_spec, in1, in2, handles, i, stderr>>

\* ------------------------------------------------------------ main(): variables
\* createVariable(..., fill_value=miss_value): all cells unwritten
FillArray(ds) ==
    [t \in 1..ds.dims.time |-> [y \in 1..ds.dims.lat |-> [x \in 1..ds.dims.lon |-> MissValue]]]

\* raw arrays of the two halves can be concatenated along time
SameGrid(f1, f2) == Len(f1.lats) = Len(f2.lats) /\ Len(f1.lons) = Len(f2.lons)

\* a slip: np.concatenate((input_data_2, input_data_1))
WrittenDataSwapped(scr, code, f1, f2) ==
    IF scr = "combine"
    THEN TransformData(scr, code, RawVar(f2, code)) \o TransformData(scr, code, RawVar(f1, code))
    ELSE TransformData(scr, code, RawVar(f1, code))

\* the array process_variable stores: output_variable[:, :, :] = ...
WrittenData(scr, code, f1, f2) ==
    IF scr = "combine"
    THEN TransformData(scr, code, RawVar(f1, code)) \o TransformData(scr, code, RawVar(f2, code))
    ELSE TransformData(scr, code, RawVar(f1, code))

\* the messages process_variable writes before it looks the code up
Announce(scr, code) == IF scr = "combine" THEN <<Msg("INFO", code)>> ELSE << >>

\* a slip: the loop over variable_spec['variables'][:-1]
AfterPassButLast(k, n) ==
    IF k >= n - 1 THEN "process_emission_heights" ELSE "process_variables"

\* where main goes after pass k of the loop over n entries: the next entry, or
\* the statement that follows the loop
AfterPass(k, n) ==
    IF k = n THEN "process_emission_heights" ELSE "process_variables"

\* one pass of the loop "for metadata in variable_spec['variables']"
ProcessVariable ==
    /\ pc = "process_variables"
    /\ i <= Len(variable_spec)
    /\ LET code == variable_spec[i]
           next == AfterPass(i, Len(variable_spec))
           made == [out EXCEPT !.created = @ \cup {code}, !.vars[code] = FillArray(out)]
       IN IF ~HasVar(in1, code)
          THEN \* warn and return None
               /\ stderr' = stderr \o Announce(script, code) \o <<Msg("WARNING", code)>>
               /\ out' = out
               /\ i' = i + 1
               /\ Goto(next)
          ELSE IF script = "combine" /\ ~HasVar(in2, code)
          THEN \* input_dataset_2.variables[code] raises KeyError
               /\ stderr' = stderr \o Announce(script, code)
               /\ out' = made
               /\ i' = i
               /\ Exit(1, "KeyError")
          ELSE IF script = "combine" /\ ~SameGrid(in1, in2)
          THEN \* np.concatenate raises ValueError
               /\ stderr' = stderr \o Announce(script, code)
               /\ out' = made
               /\ i' = i
               /\ Exit(1, "ShapeMismatch")
          ELSE /\ stderr' = stderr \o
                     (IF script = "combine" THEN Announce(script, code)
                      ELSE <<Msg("INFO", code), Msg("INFO", "done")>>)
               /\ out' = [made EXCEPT !.vars[code] = WrittenData(script, code, in1, in2)]
               /\ i' = i + 1
               /\ Goto(next)
    /\ UNCHANGED <<script, argv, data, mode, spec_path, disk, variable_spec, in1, in2, handles>>

\* process_emission_heights(output_dataset)
ProcessEmissionHeights ==
    /\ pc = "process_emission_heights"
    /\ LET r == process_emission_heights(script, out)
       IN /\ out' = r.ds
          /\ IF r.raised
             THEN /\ Exit(1, "KeyError")
                  /\ stderr' = stderr \o
                        (IF script = "preprocess" THEN <<Msg("INFO", "heights")>> ELSE << >>)
             ELSE /\ Goto("close")
                  /\ stderr' = stderr \o
                        (IF script = "preprocess"
                         THEN <<Msg("INFO", "heights"), Msg("INFO", "done")>> ELSE << >>)
    /\ UNCHANGED <<script, argv, data, mode, spec_path, disk, variable_spec, in1, in2, handles, i>>

\* input_dataset.close(); ... output_dataset.close()
CloseDatasets ==
    /\ pc = "close"
    /\ handles' = [h \in DOMAIN handles |-> IF handles[h] = "open" THEN "closed" ELSE handles[h]]
    /\ Exit(0, "none")
    /\ UNCHANGED <<script, argv, data, mode, spec_path, disk, variable_spec, in1, in2, out, i, stderr>>

Next ==
    \/ ParseCommandLine
    \/ LoadVariableSpec
    \/ OpenInput1
    \/ OpenInput2
    \/ OpenOutput
    \/ SetTitle
    \/ CreateDimensions
    \/ ProcessDimensions
    \/ ProcessVariable
    \/ ProcessEmissionHeights
    \/ CloseDatasets

Spec == Init /\ [][Next]_vars

\* ------------------------------------------------------------ simple_mode alone
\* the time steps of the arrays simple_mode is called with on its own
ModeSteps == 2

\* the values of those arrays: the sentinel, 0.0, and a value either side
ModeValues == {MissValue, Zero, 4, -4}

\* every array of ModeSteps x NLat x 1 cells over ModeValues
ModeArrays == [1..ModeSteps -> [1..NLat -> [{1} -> ModeValues]]]

ModeInit ==
    /\ script = "preprocess"
    /\ argv = UsualCommandLine
    /\ in1 = DefaultFile
    /\ in2 = NoFile
    /\ spec_path = NoPath
    /\ disk = "untouched"
    /\ data \in ModeArrays
    /\ mode = << >>
    /\ variable_spec = << >>
    /\ pc = "simple_mode"
    /\ handles = [h \in {"input_1", "input_2", "output"} |-> "unopened"]
    /\ out = EmptyDataset
    /\ i = 1
    /\ stderr = << >>
    /\ exitcode = -1
    /\ exception = "none"

\* mode = simple_mode(input_data)
CallSimpleMode ==
    /\ pc = "simple_mode"
    /\ mode' = <<simple_mode(data)>>
    /\ pc' = "returned"
    /\ UNCHANGED <<script, argv, spec_path, disk, data, variable_spec, in1, in2,
                   handles, out, i, stderr, exitcode, exception>>

ModeNext == CallSimpleMode

ModeSpec == ModeInit /\ [][ModeNext]_vars

\* ------------------------------------------------------------ vocabulary of the properties
\* the run ended normally
Completed == pc = "done" /\ exitcode = 0

\* the variables are being written, the corrector has not run yet
BeforeCorrector == pc \in {"process_variables", "process_emission_heights"}

\* process_emission_heights has returned
AfterCorrector == pc = "close" \/ Completed

\* the raw grids of the run, in order
Halves == IF script = "combine" THEN <<in1, in2>> ELSE <<in1>>

\* the codes process_variable has written into the output so far
WrittenCodes ==
    {c \in out.created : \E k \in 1..(i - 1) : variable_spec[k] = c}

\* the time steps of the output that come from half h
HalfSteps(h) == IF h = 1 THEN 1..in1.steps ELSE (in1.steps + 1)..(in1.steps + in2.steps)

\* the step of half h that output step t comes from
RawStep(h, t) == IF h = 1 THEN t ELSE t - in1.steps

\* the cells (y, x) of the output grid
GridCells == (1..NLat) \X (1..NLon)

\* the most frequent value of a raw array, the smallest one on a tie
Dominant(array) ==
    LET values == ValuesOf(array)
        count == [v \in values |-> CountOf(array, v)]
    IN CHOOSE d \in values :
          \A v \in values : count[v] < count[d] \/ (count[v] = count[d] /\ d <= v)

\* the raw value that output cell (t, y, x) of half h comes from: the latitude
\* axis mirrored, time and longitude kept
RawAt(h, code, t, y, x) == RawCell(Halves[h], code, RawStep(h, t), NLat + 1 - y, x)

\* ------------------------------------------------------------ Emission Height Corrector: claims
\* the height variables of the output dataset
HeightsWritten == Range(HeightFields) \cap out.created

\* the output cells (t, y, x)
OutCells == (1..Len(out.time)) \X (1..NLat) \X (1..NLon)

\* the height the corrector found at a cell: what process_variable had written
PreHeight(code, c) == WrittenData(script, code, in1, in2)[c[1]][c[2]][c[3]]

Cofire(c) == out.vars["cofire"][c[1]][c[2]][c[3]]

\* C1: after the corrector has run, in either script, every cell whose written
\* cofire is 0.0 holds the fill sentinel in each of mami, injh, apb and apt.
C1_ZeroFluxForcesFill ==
    AfterCorrector =>
        \A code \in HeightsWritten : \A c \in OutCells :
            Cofire(c) = Zero => out.vars[code][c[1]][c[2]][c[3]] = MissValue

\* C1 as the single-grid script alone satisfies it
C1_SingleGridOnly ==
    (AfterCorrector /\ script = "preprocess") =>
        \A code \in HeightsWritten : \A c \in OutCells :
            Cofire(c) = Zero => out.vars[code][c[1]][c[2]][c[3]] = MissValue

\* C2: after the corrector has run, in either script, every cell of a height
\* variable with non-zero cofire whose height was not the fill sentinel and was
\* of magnitude below 1.0 holds 0.0.
C2_SmallHeightZeroed ==
    AfterCorrector =>
        \A code \in HeightsWritten : \A c \in OutCells :
            (/\ Cofire(c) # Zero
             /\ PreHeight(code, c) # MissValue
             /\ PreHeight(code, c) < One
             /\ PreHeight(code, c) > -One)
            => out.vars[code][c[1]][c[2]][c[3]] = Zero

\* C2 as the single-grid script alone satisfies it
C2_SingleGridOnly == script = "preprocess" => C2_SmallHeightZeroed

\* C3: the corrector is idempotent: applied to the dataset it has produced, it
\* changes no cell of any variable (and raises nothing).
C3_Idempotent ==
    AfterCorrector =>
        process_emission_heights(script, out) = [ds |-> out, raised |-> FALSE]

\* C3 witness: a corrected dataset of the single-grid script in which rule 2 has
\* zeroed a height, rule 1 has filled one, and a height of 1.0 was kept
C3_Witness ==
    /\ AfterCorrector
    /\ script = "preprocess"
    /\ \E c \in OutCells :
          /\ Cofire(c) # Zero
          /\ PreHeight("mami", c) = 4
          /\ out.vars["mami"][c[1]][c[2]][c[3]] = Zero
          /\ out.vars["apb"][c[1]][c[2]][c[3]] = One
    /\ \E c \in OutCells : Cofire(c) = Zero /\ out.vars["mami"][c[1]][c[2]][c[3]] = MissValue

\* ------------------------------------------------------------ Variable Transformer: claims
\* what the claims say of the written array of one code: in the part that
\* comes from each raw grid, every cell that held that grid's dominant value
\* holds `fill`, and no cell holds the dominant value unless it is `fill`
DominantReplaced(code, fill) ==
    \A h \in DOMAIN Halves :
        LET d == Dominant(RawVar(Halves[h], code))
        IN \A t \in HalfSteps(h) : \A g \in GridCells :
              /\ RawAt(h, code, t, g[1], g[2]) = d => out.vars[code][t][g[1]][g[2]] = fill
              /\ d # fill => out.vars[code][t][g[1]][g[2]] # d

\* C4: in either script, the written array of a height code (mami, injh, apb,
\* apt) holds the fill sentinel wherever the raw array held its dominant value,
\* and holds the dominant value nowhere unless that value is the sentinel.
C4_HeightDominantFilled ==
    BeforeCorrector =>
        \A code \in WrittenCodes \cap Range(HeightFields) :
            DominantReplaced(code, MissValue)

\* C4 as the single-grid script alone satisfies it
C4_SingleGridOnly == script = "preprocess" => C4_HeightDominantFilled

\* C5: the written array of every other code holds 0.0 wherever the raw array
\* held its dominant value, and holds the dominant value nowhere unless that
\* value is 0.0.
C5_FluxDominantZeroed ==
    BeforeCorrector =>
        \A code \in WrittenCodes \ Range(HeightFields) :
            DominantReplaced(code, Zero)

\* C5 witness: cofire written from a raw grid whose dominant value is not 0.0,
\* with the fire cell's flux kept
C5_Witness ==
    /\ BeforeCorrector
    /\ "cofire" \in WrittenCodes
    /\ Dominant(RawVar(in1, "cofire")) = 1
    /\ out.vars["cofire"][1][NLat][1] = 25
    /\ out.vars["cofire"][1][1][1] = Zero

\* ------------------------------------------------------------ Dimension Transformer: claims
\* C6: in every completed run the output lat array has the length of the lat
\* dimension and is the raw latitude array read backwards, and the output lon
\* array has the length of the lon dimension and is the raw longitude array.
\* (The combining script reads both from the first half.)
C6_LatReversedLonCopied ==
    Completed =>
        /\ out.dims.lat = NLat
        /\ Len(out.lat) = NLat
        /\ \A k \in 1..NLat : out.lat[k] = in1.lats[NLat + 1 - k]
        /\ out.dims.lon = NLon
        /\ Len(out.lon) = NLon
        /\ \A k \in 1..NLon : out.lon[k] = in1.lons[k]

\* C6 witness: a completed run whose raw latitudes ascend on a grid other than
\* the usual one, and whose output latitudes descend
C6_Witness ==
    /\ Completed
    /\ in1.lats # StdLats
    /\ in1.lats[1] < in1.lats[NLat]
    /\ out.lat[1] > out.lat[NLat]
    /\ out.lat[1] = in1.lats[NLat]

\* ------------------------------------------------------------ Grid Combiner: claims
\* what the combining script makes of a raw value r of a half whose dominant
\* value is d: the dominant value replaced, any other value kept
CombinedValue(code, r, d) ==
    IF r = d THEN (IF IsHeightCode("combine", code) THEN MissValue ELSE Zero) ELSE r

\* C7: the combining script writes N1 + N2 time steps; the time coordinate and
\* every written variable hold half one's processed values at [0, N1) and half
\* two's at [N1, N1 + N2), in the order of the raw grids, each half corrected
\* with its own dominant value.
C7_HalvesConcatenated ==
    (script = "combine" /\ BeforeCorrector) =>
        /\ Len(out.time) = in1.steps + in2.steps
        /\ \A h \in DOMAIN Halves : \A t \in HalfSteps(h) :
              out.time[t] = RawTime(Halves[h])[RawStep(h, t)] - TimeOffset
        /\ \A code \in WrittenCodes :
              /\ Len(out.vars[code]) = in1.steps + in2.steps
              /\ \A h \in DOMAIN Halves :
                    LET d == Dominant(RawVar(Halves[h], code))
                    IN \A t \in HalfSteps(h) : \A g \in GridCells :
                          out.vars[code][t][g[1]][g[2]] =
                              CombinedValue(code, RawAt(h, code, t, g[1], g[2]), d)

\* C7 witness: all variables written from two halves of different lengths and
\* different dominant values
C7_Witness ==
    /\ script = "combine"
    /\ pc = "process_emission_heights"
    /\ WrittenCodes = Codes
    /\ in1.steps < in2.steps
    /\ in1.pad # in2.pad
    /\ out.vars["cofire"][in1.steps + 1][NLat][1] = 25

\* the variables the single-grid script produces from one raw grid
SingleGrid(f) ==
    process_emission_heights("preprocess",
        [EmptyDataset EXCEPT
            !.created = Codes \ f.absent,
            !.vars = [c \in Codes |->
                        IF HasVar(f, c) THEN TransformData("preprocess", c, RawVar(f, c))
                        ELSE << >>]]).ds.vars

\* C8: the output of the combining script is, variable by variable, the
\* concatenation along time of what the single-grid script produces from each
\* half (both halves being grids the single-grid script processes).
C8_CombineIsConcatOfSingle ==
    (/\ Completed
     /\ script = "combine"
     /\ in1.absent = {} /\ in2.absent = {}
     /\ in1.steps > TitleIndex /\ in2.steps > TitleIndex)
    => \A code \in Codes :
          out.vars[code] = SingleGrid(in1)[code] \o SingleGrid(in2)[code]

\* ------------------------------------------------------------ failures: claims
\* the codes of the specification that a raw grid of the run lacks
AbsentCodes == in1.absent \cup (IF script = "combine" THEN in2.absent ELSE {})

\* how many warnings name the code
Warnings(code) ==
    Cardinality({k \in DOMAIN stderr : stderr[k] = Msg("WARNING", code)})

\* the run got as far as the loop over the specification
ReachedVariables == out.lon # << >>

\* C9: a run that reaches the variable loop with a specified code absent from a
\* raw grid (and nothing else wrong) ends normally, with no output variable for
\* the code, one warning for it, and every other specified variable written.
C9_MissingVariableSkipped ==
    (/\ pc = "done"
     /\ ReachedVariables
     /\ AbsentCodes # {}
     /\ script = "combine" => SameGrid(in1, in2))
    => /\ Completed
       /\ \A c \in AbsentCodes : c \notin out.created /\ Warnings(c) = 1
       /\ \A c \in Codes \ AbsentCodes : c \in out.created

\* C9 as it holds of the single-grid script: for a code that is neither cofire
\* nor a height code
C9_SingleGridOtherCode ==
    (/\ pc = "done"
     /\ ReachedVariables
     /\ script = "preprocess"
     /\ in1.absent = {"co2fire"})
    => /\ Completed
       /\ "co2fire" \notin out.created /\ Warnings("co2fire") = 1
       /\ \A c \in Codes \ {"co2fire"} : c \in out.created

\* C10: when the run has ended, however it ended, no dataset is left open.
C10_HandlesClosed ==
    pc = "done" => \A h \in DOMAIN handles : handles[h] # "open"

\* C10 as it holds: on normal completion
C10_ClosedOnCompletion ==
    Completed => \A h \in DOMAIN handles : handles[h] # "open"

\* ------------------------------------------------------------ start-up: claims
\* the run ended on a path, the specification or the output it could not use:
\* argparse's exit or one of main's "Unable to open" exits
ConfigurationError == pc = "done" /\ exitcode # 0 /\ exception = "none"

\* C11: a run that ends with a configuration error has exited non-zero before
\* anything was processed, and has neither created nor modified the output
\* file on disk.
C11_NoOutputOnConfigurationError ==
    ConfigurationError =>
        /\ exitcode \in {1, 2}
        /\ out = EmptyDataset
        /\ disk = "untouched"

\* C11 as the combining script satisfies it
C11_CombiningScript == script = "combine" => C11_NoOutputOnConfigurationError

\* a run of the single-grid script that C11 fails on: the specification could
\* not be read after the output path had been opened for writing
C11_TruncatedThenFailed ==
    /\ ConfigurationError
    /\ script = "preprocess"
    /\ variable_spec = << >>
    /\ spec_path # NoPath
    /\ disk = "empty"

\* ------------------------------------------------------------ simple_mode: claims
\* C12: the value simple_mode returns occurs in the array; counted over all
\* cells of the array, no value occurs more often; and of the values that
\* occur as often, it is the smallest.
C12_ModeMostFrequentSmallest ==
    pc = "returned" =>
        LET m == mode[1]
            times == CountOf(data, m)
        IN /\ m \in ValuesOf(data)
           /\ \A v \in ValuesOf(data) :
                 /\ CountOf(data, v) <= times
                 /\ CountOf(data, v) = times => m <= v

\* C12 witness: 0.0 and 0.4 tie over the whole array, the first time step
\* holds 0.4 alone, and 0.0 is returned
C12_Witness ==
    /\ pc = "returned"
    /\ \A y \in 1..NLat : data[1][y][1] = 4
    /\ CountOf(data, 4) = CountOf(data, Zero)
    /\ ValuesOf(data) = {Zero, 4}
    /\ mode = <<Zero>>

\* ------------------------------------------------------------ Grid Combiner: the grids of the halves
\* the two halves are on one grid: the same latitudes and the same longitudes
IdenticalGrids == in1.lats = in2.lats /\ in1.lons = in2.lons

\* C13: a run of the combining script whose halves do not have identical
\* latitude and longitude arrays ends with a fatal error: it does not complete.
C13_MismatchedGridsFatal ==
    (script = "combine" /\ pc = "done" /\ ~IdenticalGrids) => exitcode # 0

\* C13 as it holds: halves whose coordinate arrays differ in length
C13_DifferentLengthsFatal ==
    (script = "combine" /\ pc = "done" /\ ~SameGrid(in1, in2)) =>
        /\ exitcode # 0
        /\ WrittenCodes = {}

\* ------------------------------------------------------------ time dimension: claims
\* a run of the single-grid script that ended after its datasets were opened,
\* on a raw grid of the expected shape that holds every specified variable
SingleGridRunEnded ==
    /\ script = "preprocess"
    /\ pc = "done"
    /\ handles["output"] # "unopened"
    /\ in1.absent = {}
    /\ Len(in1.lats) = NLat
    /\ Len(in1.lons) = NLon

\* the output time coordinate is the raw one less the offset, step by step
TimeIsRawLessOffset ==
    /\ out.dims.time = in1.steps
    /\ Len(out.time) = in1.steps
    /\ \A t \in 1..in1.steps : out.time[t] = RawTime(in1)[t] - TimeOffset

\* C14: for a raw grid of any number N >= 1 of time steps the single-grid run
\* completes, with a time dimension of length N whose value at each index is
\* the raw time value at that index minus 613608.
C14_TimeOffsetForEveryLength ==
    (SingleGridRunEnded /\ in1.steps >= 1) => (Completed /\ TimeIsRawLessOffset)

\* C14 as it holds: for raw grids of at least six time steps
C14_TimeOffsetFromSixSteps ==
    (SingleGridRunEnded /\ in1.steps > TitleIndex) => (Completed /\ TimeIsRawLessOffset)

\* ------------------------------------------------------------ variable specification path: claims
\* main has opened, or tried to open, the specification
SpecificationOpened == spec_path # NoPath

\* C15: the run opens the specification at the default path
\* 'variable_spec.json' when --variable-spec is omitted, and at exactly the
\* supplied path when it is given.
C15_SpecPathDefaultOrSupplied ==
    SpecificationOpened =>
        spec_path = IF argv.option = "omitted" THEN DefaultSpecPath
                    ELSE SuppliedSpecPath

\* C15 as it holds: the supplied path is the one opened
C15_SuppliedPathOpened ==
    (SpecificationOpened /\ argv.option # "omitted") => spec_path = SuppliedSpecPath

\* ------------------------------------------------------------ order of the stages: claims
\* a step that writes a coordinate array
DimensionsStep == out'.time # out.time \/ out'.lat # out.lat \/ out'.lon # out.lon

\* a step that creates an output variable
VariableStep == out'.created # out.created

\* a step in which process_emission_heights runs
CorrectorStep == pc = "process_emission_heights" /\ pc' # pc

\* C16: the coordinates are written before any variable; the variables are
\* written one by one in the order of the specification; the corrector runs
\* once, only when the loop has passed the last entry and every specified
\* variable of the raw grid is written; after it nothing is written, and the
\* run completes only through it.
C16_StagesInOrder ==
    [][/\ DimensionsStep =>
            (pc = "process_dimensions" /\ out.created = {})
       /\ VariableStep =>
            /\ pc = "process_variables"
            /\ ReachedVariables
            /\ i \in 1..Len(variable_spec)
            /\ out'.created = out.created \cup {variable_spec[i]}
            /\ \A k \in 1..(i - 1) :
                  HasVar(in1, variable_spec[k]) => variable_spec[k] \in out.created
            /\ \A k \in i..Len(variable_spec) : variable_spec[k] \notin out.created
       /\ CorrectorStep =>
            /\ i = Len(variable_spec) + 1
            /\ \A k \in 1..Len(variable_spec) :
                  HasVar(in1, variable_spec[k]) => variable_spec[k] \in WrittenCodes
            /\ pc' \in {"close", "done"}
       /\ pc' = "close" => CorrectorStep
       /\ exitcode' = 0 => pc = "close"
       /\ pc \in {"close", "done"} =>
            /\ out' = out
            /\ pc' \in {"close", "done"}
      ]_vars

\* C16 witness: the corrector has run on all six variables, rule 2 has zeroed a
\* height that process_variable had written, and the run is about to close
C16_Witness ==
    /\ pc = "close"
    /\ i = Len(variable_spec) + 1
    /\ WrittenCodes = Codes
    /\ out.lat # << >>
    /\ \E c \in OutCells :
          PreHeight("mami", c) = 4 /\ out.vars["mami"][c[1]][c[2]][c[3]] = Zero

\* ------------------------------------------------------------ Variable Transformer: what is kept
\* C17: in either script, for every written variable and every output cell
\* (t, y, x): if the raw value at the same time and longitude and the mirrored
\* latitude is not the dominant value of its raw array, the output cell holds
\* that raw value.
C17_NonDominantMirrored ==
    BeforeCorrector =>
        \A code \in WrittenCodes : \A h \in DOMAIN Halves :
            LET d == Dominant(RawVar(Halves[h], code))
            IN \A t \in HalfSteps(h) : \A g \in GridCells :
                  RawAt(h, code, t, g[1], g[2]) # d =>
                      out.vars[code][t][g[1]][g[2]] = RawAt(h, code, t, g[1], g[2])

\* C17 witness: the single-grid script has written all variables of a raw grid
\* padded with 0.1; the fire cell's apt of -1.0, at raw latitude index 0, is at
\* the last latitude index of the output, and the padding is replaced
C17_Witness ==
    /\ script = "preprocess"
    /\ pc = "process_emission_heights"
    /\ WrittenCodes = Codes
    /\ in1.pad = 1
    /\ RawCell(in1, "apt", 1, 1, 1) = -One
    /\ out.vars["apt"][1][NLat][1] = -One
    /\ out.vars["apt"][1][1][1] = MissValue
    /\ out.lat[NLat] = in1.lats[1]

\* ------------------------------------------------------------ Emission Height Corrector: what is kept
\* a height neither rule speaks of, at a cell with fire: the fill sentinel, or
\* a height of magnitude 1.0 or more
OutsideRules(height, cofire) ==
    /\ cofire # Zero
    /\ (height = MissValue \/ height >= One \/ height <= -One)

\* what a run of the corrector leaves as it was
CorrectorFrame ==
    /\ out'.dims = out.dims
    /\ out'.time = out.time /\ out'.lat = out.lat /\ out'.lon = out.lon
    /\ out'.created = out.created
    /\ \A code \in Codes \ Range(HeightFields) : out'.vars[code] = out.vars[code]
    /\ "cofire" \in out.created =>
          \A code \in HeightsWritten : \A c \in OutCells :
              OutsideRules(out.vars[code][c[1]][c[2]][c[3]], Cofire(c)) =>
                  out'.vars[code][c[1]][c[2]][c[3]] = out.vars[code][c[1]][c[2]][c[3]]

\* C18: in either script a run of the corrector leaves the dimensions, the
\* coordinate arrays, cofire and every other non-height variable unchanged, and
\* in each height variable leaves unchanged every cell with non-zero cofire
\* whose height is the fill sentinel or is of magnitude 1.0 or more.
C18_CorrectorChangesNothingElse == [][CorrectorStep => CorrectorFrame]_vars

\* C18 as the single-grid script alone satisfies it
C18_SingleGridOnly ==
    [][(CorrectorStep /\ script = "preprocess") => CorrectorFrame]_vars

=============================================================================
